---------------------------- MODULE Spec2Model ----------------------------
(***************************************************************************)
(* Model of src/eth_price_bot.py: the monitoring loop run_checks           *)
(* (price_check, check_gigavault, gas_check), the RPC fallback             *)
(* get_eth_gas_gwei, the operator command /set with its persistence in     *)
(* config.env (update_env_value), the reload of config.env at start, the   *)
(* daily digest send_daily_prices and the shutdown of main, the last three *)
(* interleaved with run_checks at the awaits of the code.                  *)
(*                                                                         *)
(* A Python string is a sequence of tokens, each token a TLA+ string: a    *)
(* single character, or a literal chunk of the program text that no        *)
(* operation of the program looks into (such as "_CRITICAL_PRICE").        *)
(* A Python float is a record: a finite rational n/d, an infinity or NaN.  *)
(***************************************************************************)
EXTENDS Integers, Sequences, FiniteSets, TLC

(***************************************************************************)
(* Strings                                                                 *)
(***************************************************************************)
Whitespace == {" ", "\t", "\n", "\r"}

\* str.strip(): leading and trailing whitespace removed.
RECURSIVE LStrip(_)
LStrip(s) ==
    IF s # <<>> /\ Head(s) \in Whitespace THEN LStrip(Tail(s)) ELSE s

RECURSIVE RStrip(_)
RStrip(s) ==
    IF s # <<>> /\ s[Len(s)] \in Whitespace
    THEN RStrip(SubSeq(s, 1, Len(s) - 1))
    ELSE s

Strip(s) == LStrip(RStrip(s))

\* str.startswith(p)
StartsWith(s, p) == Len(p) <= Len(s) /\ SubSeq(s, 1, Len(p)) = p

\* str.replace(a, b) for single characters a, b.
Replace(s, a, b) == [i \in 1..Len(s) |-> IF s[i] = a THEN b ELSE s[i]]

\* str.upper() on the letters the inputs use.
UpperChar(c) ==
    CASE c = "a" -> "A" [] c = "b" -> "B" [] c = "c" -> "C"
      [] c = "e" -> "E" [] c = "h" -> "H" [] c = "o" -> "O"
      [] c = "r" -> "R" [] c = "t" -> "T" [] c = "v" -> "V"
      [] OTHER -> c

Upper(s) == [i \in 1..Len(s) |-> UpperChar(s[i])]

\* str.split(sep) for a single character sep: always at least one piece.
RECURSIVE SplitAcc(_, _, _)
SplitAcc(s, sep, cur) ==
    IF s = <<>> THEN <<cur>>
    ELSE IF Head(s) = sep THEN <<cur>> \o SplitAcc(Tail(s), sep, <<>>)
    ELSE SplitAcc(Tail(s), sep, Append(cur, Head(s)))

Split(s, sep) == SplitAcc(s, sep, <<>>)

\* sep.join(parts)
RECURSIVE Join(_, _)
Join(parts, sep) ==
    IF parts = <<>> THEN <<>>
    ELSE IF Len(parts) = 1 THEN parts[1]
    ELSE parts[1] \o sep \o Join(Tail(parts), sep)

\* Index of the first occurrence of token c in s, 0 when there is none.
RECURSIVE FindFrom(_, _, _)
FindFrom(s, c, i) ==
    IF i > Len(s) THEN 0
    ELSE IF s[i] = c THEN i
    ELSE FindFrom(s, c, i + 1)

Find(s, c) == FindFrom(s, c, 1)

(***************************************************************************)
(* Floats                                                                  *)
(***************************************************************************)
Fin(n, d) == [k |-> "fin", n |-> n, d |-> d]
NaN == [k |-> "nan", n |-> 0, d |-> 1]
Inf(sign) == [k |-> "inf", n |-> sign, d |-> 1]
ValueError == [k |-> "ValueError", n |-> 0, d |-> 1]

RECURSIVE GCD(_, _)
GCD(a, b) == IF b = 0 THEN a ELSE GCD(b, a % b)

\* a < b on finite rationals: the integer parts first, then the fractional
\* parts over the reduced denominators, so that no product leaves the range
\* of 32-bit integers.
FinLess(a, b) ==
    LET ai == a.n \div a.d
        bi == b.n \div b.d
        g  == GCD(a.d, b.d)
    IN  \/ ai < bi
        \/ /\ ai = bi
           /\ (a.n % a.d) * (b.d \div g) < (b.n % b.d) * (a.d \div g)

\* Python's a < b on floats: every comparison with NaN is False.
NumLess(a, b) ==
    CASE a.k = "nan" \/ b.k = "nan" -> FALSE
      [] a.k = "inf" /\ b.k = "inf" -> a.n < b.n
      [] a.k = "inf" -> a.n < 0
      [] b.k = "inf" -> b.n > 0
      [] OTHER -> FinLess(a, b)

\* Python's a > b and a >= b on floats.
NumGreater(a, b) == NumLess(b, a)

NumGreaterEq(a, b) ==
    /\ a.k # "nan"
    /\ b.k # "nan"
    /\ ~NumLess(a, b)

Digits == {"0", "1", "2", "3", "4", "5", "6", "7", "8", "9"}

DigitVal(c) ==
    CASE c = "0" -> 0 [] c = "1" -> 1 [] c = "2" -> 2 [] c = "3" -> 3
      [] c = "4" -> 4 [] c = "5" -> 5 [] c = "6" -> 6 [] c = "7" -> 7
      [] c = "8" -> 8 [] c = "9" -> 9

RECURSIVE DecVal(_, _)
DecVal(s, acc) ==
    IF s = <<>> THEN acc ELSE DecVal(Tail(s), acc * 10 + DigitVal(Head(s)))

RECURSIVE Pow10(_)
Pow10(n) == IF n = 0 THEN 1 ELSE 10 * Pow10(n - 1)

AllDigits(s) == \A i \in 1..Len(s) : s[i] \in Digits

\* float(s) of an unsigned body: digits with at most one point and at least
\* one digit, "inf", "infinity" or "nan" in any case; anything else raises.
ParseUnsigned(s) ==
    LET low == [i \in 1..Len(s) |->
                   CASE s[i] = "I" -> "i" [] s[i] = "N" -> "n" [] s[i] = "F" -> "f"
                     [] s[i] = "A" -> "a" [] s[i] = "T" -> "t" [] s[i] = "Y" -> "y"
                     [] OTHER -> s[i]]
        dot == Find(s, ".")
        ip  == IF dot = 0 THEN s ELSE SubSeq(s, 1, dot - 1)
        fp  == IF dot = 0 THEN <<>> ELSE SubSeq(s, dot + 1, Len(s))
    IN  IF low = <<"n", "a", "n">> THEN NaN
        ELSE IF low = <<"i", "n", "f">>
                \/ low = <<"i", "n", "f", "i", "n", "i", "t", "y">> THEN Inf(1)
        ELSE IF AllDigits(ip) /\ AllDigits(fp) /\ Len(ip) + Len(fp) > 0
        THEN Fin(DecVal(ip \o fp, 0), Pow10(Len(fp)))
        ELSE ValueError

\* float(s): surrounding whitespace ignored, an optional sign.
ParseFloat(s) ==
    LET t    == Strip(s)
        neg  == t # <<>> /\ Head(t) = "-"
        body == IF t # <<>> /\ Head(t) \in {"-", "+"} THEN Tail(t) ELSE t
        v    == ParseUnsigned(body)
    IN  IF neg /\ v.k \in {"fin", "inf"} THEN [v EXCEPT !.n = -v.n] ELSE v


\* a - b on finite floats.
NumSub(a, b) == Fin(a.n * b.d - b.n * a.d, a.d * b.d)

NoneNum == [k |-> "None", n |-> 0, d |-> 1]

\* An optional string: None, or a string.
NoneStr == [none |-> TRUE, text |-> <<>>]
SomeStr(t) == [none |-> FALSE, text |-> t]

(***************************************************************************)
(* Configuration: config.env, os.environ, the module-level settings        *)
(***************************************************************************)
BTC == <<"B", "T", "C">>
ETH == <<"E", "T", "H">>
AERO == <<"A", "E", "R", "O">>
CRV == <<"C", "R", "V">>

\* COINS, in the order of the dict literal.
COINS ==
    << [symbol |-> BTC, cgid |-> <<"bitcoin">>],
       [symbol |-> ETH, cgid |-> <<"ethereum">>],
       [symbol |-> AERO, cgid |-> <<"aerodrome-finance">>] >>

Symbols == {COINS[i].symbol : i \in 1..Len(COINS)}

\* f"{symbol}_CRITICAL_PRICE"
CriticalPriceKey(symbol) == symbol \o <<"_CRITICAL_PRICE">>

GAS_CRITICAL_GWEI == <<"GAS_CRITICAL_GWEI">>
GIGAVAULT_START_MAX_TVL_KEY == <<"GIGAVAULT_START_MAX_TVL">>
ETH_RPC_URLS_KEY == <<"ETH_RPC_URLS">>

EmptyEnviron == [key \in {} |-> <<>>]

\* os.getenv(key, default)
Getenv(env, key, default) == IF key \in DOMAIN env THEN env[key] ELSE default

\* The bindings of a KEY=VALUE text as load_dotenv reads them: a line ends
\* at "\n"; blank lines and lines starting with "#" bind nothing; the key is
\* what stands before the first "=", the value what follows it, both
\* stripped; a later binding of a key replaces an earlier one. (Quoted
\* values, "export" and inline comments are not among the inputs.)
RECURSIVE DotenvBind(_, _)
DotenvBind(lines, env) ==
    IF lines = <<>> THEN env
    ELSE LET t  == Strip(Head(lines))
             eq == Find(t, "=")
             key == Strip(SubSeq(t, 1, eq - 1))
             val == Strip(SubSeq(t, eq + 1, Len(t)))
         IN  IF t = <<>> \/ Head(t) = "#" \/ eq = 0
             THEN DotenvBind(Tail(lines), env)
             ELSE DotenvBind(Tail(lines), (key :> val) @@ env)

DotenvValues(file) ==
    IF file.exists THEN DotenvBind(Split(file.text, "\n"), EmptyEnviron)
    ELSE EmptyEnviron

\* load_dotenv("config.env"): a variable the process environment already
\* has is kept (override is off).
LoadDotenv(file, env) == env @@ DotenvValues(file)

\* float(os.getenv(key, default)) of the THRESHOLDS literal.
EnvFloat(env, key, default) ==
    IF key \in DOMAIN env THEN ParseFloat(env[key]) ELSE default

DefaultThreshold(symbol) ==
    CASE symbol = BTC -> Fin(99000, 1)
      [] symbol = ETH -> Fin(3300, 1)
      [] symbol = AERO -> Fin(2, 10)

ModuleThresholds(env) ==
    [s \in Symbols |-> EnvFloat(env, CriticalPriceKey(s), DefaultThreshold(s))]

DefaultRpcUrls ==
    << "https://ethereum.publicnode.com", ",", "https://cloudflare-eth.com", ",",
       "https://rpc.ankr.com/eth" >>

\* os.getenv("ETH_RPC_URLS", "...").split(",")
ModuleRpcUrls(env) == Split(Getenv(env, ETH_RPC_URLS_KEY, DefaultRpcUrls), ",")

\* GIGAVAULT_START_MAX_TVL, with the fallback of the except branch.
ModuleStartMaxTvl(env) ==
    LET raw == Getenv(env, GIGAVAULT_START_MAX_TVL_KEY,
                      <<"9", "0", "0", "0", "0", "0", "0", "0">>)
        v   == ParseFloat(Replace(raw, ",", "."))
    IN  IF v.k = "ValueError" THEN Fin(90000000, 1) ELSE v

\* critical of gas_check, with the fallback of the except branch.
GasCritical(env) ==
    LET raw_critical == Getenv(env, GAS_CRITICAL_GWEI, <<"7", ".", "0">>)
        v == ParseFloat(Replace(raw_critical, ",", "."))
    IN  IF v.k = "ValueError" THEN Fin(7, 1) ELSE v

\* The import of the module succeeds unless a float() of THRESHOLDS raises.
ImportOk(env) ==
    \A s \in Symbols : ModuleThresholds(env)[s].k # "ValueError"

(***************************************************************************)
(* get_eth_gas_gwei: the RPC endpoints tried in list order                 *)
(***************************************************************************)
WeiPerGwei == 1000000000

HexDigitVal(c) ==
    CASE c \in Digits -> DigitVal(c)
      [] c \in {"a", "A"} -> 10 [] c \in {"b", "B"} -> 11
      [] c \in {"c", "C"} -> 12 [] c \in {"d", "D"} -> 13
      [] c \in {"e", "E"} -> 14 [] c \in {"f", "F"} -> 15
      [] OTHER -> -1

RECURSIVE HexAccBase10(_, _)
HexAccBase10(s, acc) ==
    IF s = <<>> THEN acc ELSE HexAccBase10(Tail(s), acc * 10 + HexDigitVal(Head(s)))

RECURSIVE HexAcc(_, _)
HexAcc(s, acc) ==
    IF s = <<>> THEN acc ELSE HexAcc(Tail(s), acc * 16 + HexDigitVal(Head(s)))

\* int(wei_hex, 16) of a string that starts with "0x": the digits after the
\* prefix, at least one, each a hexadecimal digit; anything else raises
\* (texts with "_" or inner whitespace are not among the inputs).
IntBase16(wei_hex) ==
    LET body == SubSeq(wei_hex, 3, Len(wei_hex))
    IN  IF body # <<>> /\ \A i \in 1..Len(body) : HexDigitVal(body[i]) >= 0
        THEN [ok |-> TRUE, val |-> HexAcc(body, 0)]
        ELSE [ok |-> FALSE, val |-> 0]

\* One endpoint's answer to the POST, and what one pass of the loop body makes
\* of it: the value, or the labelled error appended to errors.
RpcAttempt(url, resp) ==
    IF resp.kind = "exception"
    THEN [ok |-> FALSE, gwei |-> NoneNum, error |-> url \o <<" exception: ", "<e>">>]
    ELSE IF resp.status # "200"
    THEN [ok |-> FALSE, gwei |-> NoneNum, error |-> url \o <<" status ", resp.status>>]
    ELSE IF ~resp.json_dict
    THEN [ok |-> FALSE, gwei |-> NoneNum, error |-> url \o <<" exception: ", "<e>">>]
    ELSE IF resp.result_none \/ ~resp.is_str \/ resp.result = <<>>
            \/ ~StartsWith(resp.result, <<"0", "x">>)
    THEN [ok |-> FALSE, gwei |-> NoneNum,
          error |-> url \o <<" no valid result: ", "<j>">>]
    ELSE LET wei == IntBase16(resp.result)
         IN  IF wei.ok
             THEN [ok |-> TRUE, gwei |-> Fin(wei.val, WeiPerGwei), error |-> <<>>]
             ELSE [ok |-> FALSE, gwei |-> NoneNum,
                   error |-> url \o <<" exception: ", "<e>">>]

LastErrorOnly(errors) ==
    IF errors = <<>> THEN <<"No result from any RPC">> ELSE errors[Len(errors)]

\* " ; ".join(errors) or "No result from any RPC"
AggregateError(errors) ==
    LET joined == Join(errors, <<" ; ">>)
    IN  IF joined = <<>> THEN <<"No result from any RPC">> ELSE joined

\* An entry of ETH_RPC_URLS that the loop passes over: empty once stripped.
SkipsEntry(raw_url) == Strip(raw_url) = <<>>

\* The loop of get_eth_gas_gwei from entry i on; resps[i] is the answer entry
\* i gives if it is contacted. posts lists the URLs contacted, in order.
RECURSIVE RpcLoop(_, _, _, _, _)
RpcLoop(urls, resps, i, errors, posts) ==
    IF i > Len(urls)
    THEN [gwei |-> NoneNum, gerr |-> SomeStr(AggregateError(errors)), posts |-> posts]
    ELSE IF SkipsEntry(urls[i])
    THEN RpcLoop(urls, resps, i + 1, errors, posts)
    ELSE LET url == Strip(urls[i])
             got == RpcAttempt(url, resps[i])
         IN  IF got.ok
             THEN [gwei |-> got.gwei, gerr |-> NoneStr, posts |-> Append(posts, url)]
             ELSE RpcLoop(urls, resps, i + 1, Append(errors, got.error),
                          Append(posts, url))

get_eth_gas_gwei(urls, resps) == RpcLoop(urls, resps, 1, <<>>, <<>>)

(***************************************************************************)
(* gas_check: edge-triggered, with the flag gas_below_threshold            *)
(***************************************************************************)
PyBool(b) == IF b THEN "True" ELSE "False"

GasMessage(kind, gas_gwei, critical) ==
    [kind |-> kind, gwei |-> gas_gwei, critical |-> critical]

DroppedBelowOrEqual(gas_gwei, critical) == ~NumGreater(gas_gwei, critical)

\* The test of the downward crossing: gas_gwei < critical.
DroppedBelow(gas_gwei, critical) == NumLess(gas_gwei, critical)

RoseAboveStrict(gas_gwei, critical) == NumGreater(gas_gwei, critical)

\* The test of the upward crossing: gas_gwei >= critical.
RoseAbove(gas_gwei, critical) == NumGreaterEq(gas_gwei, critical)

gas_check_failure_as_zero(flag, gas, critical) ==
    LET gwei == IF gas.gwei.k = "None" THEN Fin(0, 1) ELSE gas.gwei
    IN  IF flag = "None"
        THEN [flag |-> PyBool(NumLess(gwei, critical)),
              msgs |-> IF NumLess(gwei, critical)
                       THEN <<GasMessage("gas_already_below", gwei, critical)>>
                       ELSE <<>>]
        ELSE IF DroppedBelow(gwei, critical) /\ flag = "False"
        THEN [flag |-> "True", msgs |-> <<GasMessage("gas_dropped_below", gwei, critical)>>]
        ELSE IF RoseAbove(gwei, critical) /\ flag = "True"
        THEN [flag |-> "False", msgs |-> <<GasMessage("gas_rose_above", gwei, critical)>>]
        ELSE [flag |-> flag, msgs |-> <<>>]

\* gas_check after the fetch: gas is what get_eth_gas_gwei returned, flag the
\* value of self.gas_below_threshold ("None", "True", "False"). The result is
\* the new flag and the messages handed to send_message.
gas_check(flag, gas, critical) ==
    IF gas.gwei.k = "None"
    THEN [flag |-> flag, msgs |-> <<>>]
    ELSE IF flag = "None"
    THEN LET below == NumLess(gas.gwei, critical)
         IN  [flag |-> PyBool(below),
              msgs |-> IF below
                       THEN <<GasMessage("gas_already_below", gas.gwei, critical)>>
                       ELSE <<>>]
    ELSE IF DroppedBelow(gas.gwei, critical) /\ flag = "False"
    THEN [flag |-> "True",
          msgs |-> <<GasMessage("gas_dropped_below", gas.gwei, critical)>>]
    ELSE IF RoseAbove(gas.gwei, critical) /\ flag = "True"
    THEN [flag |-> "False",
          msgs |-> <<GasMessage("gas_rose_above", gas.gwei, critical)>>]
    ELSE [flag |-> flag, msgs |-> <<>>]

(***************************************************************************)
(* get_prices and price_check: level-triggered                             *)
(***************************************************************************)
\* get_prices: fetch is the answer of the price source. An exception of the
\* request, or of the comprehension (an entry without "usd"), gives {}.
get_prices(fetch) ==
    IF fetch.kind = "exception" THEN <<>>
    ELSE LET listed == SelectSeq(COINS, LAMBDA c : c.cgid \in DOMAIN fetch.data)
         IN  IF \E i \in 1..Len(listed) : ~fetch.data[listed[i].cgid].has_usd
             THEN <<>>
             ELSE [i \in 1..Len(listed) |->
                      [symbol |-> listed[i].symbol,
                       price |-> fetch.data[listed[i].cgid].usd]]

\* send_alert(symbol, price, condition); the condition text quotes a value of
\* the module-level THRESHOLDS.
Alert(symbol, price, text, value) ==
    [kind |-> "alert", symbol |-> symbol, price |-> price,
     condition |-> [text |-> text, value |-> value]]

BelowModuleThreshold(symbol, price, th, TH) == NumLess(price, TH[symbol])

\* price < self.thresholds[symbol]
BelowThreshold(symbol, price, th, TH) == NumLess(price, th[symbol])

SecondEthKeyEth == ETH

\* THRESHOLDS['CRV'] inside the second f-string of the ETH branch: the key
\* the dict must hold for the argument to be built.
SecondEthKey == CRV

\* The loop of price_check from item i on. th is self.thresholds, TH the
\* module-level THRESHOLDS. A KeyError of a THRESHOLDS[...] lookup leaves the
\* loop with the alerts sent so far.
RECURSIVE PriceLoop(_, _, _, _, _)
PriceLoop(prices, i, th, TH, alerts) ==
    IF i > Len(prices) THEN [alerts |-> alerts, raised |-> "None"]
    ELSE LET symbol == prices[i].symbol
             price  == prices[i].price
         IN  IF symbol = BTC /\ BelowThreshold(BTC, price, th, TH)
             THEN IF BTC \notin DOMAIN TH
                  THEN [alerts |-> alerts, raised |-> "KeyError"]
                  ELSE PriceLoop(prices, i + 1, th, TH,
                           Append(alerts, Alert(symbol, price, "below", TH[BTC])))
             ELSE IF symbol = ETH /\ BelowThreshold(ETH, price, th, TH)
             THEN IF ETH \notin DOMAIN TH
                  THEN [alerts |-> alerts, raised |-> "KeyError"]
                  ELSE LET first == Append(alerts,
                                        Alert(symbol, price, "below", TH[ETH]))
                       IN  IF SecondEthKey \notin DOMAIN TH
                           THEN [alerts |-> first, raised |-> "KeyError"]
                           ELSE PriceLoop(prices, i + 1, th, TH,
                                    Append(first, Alert(symbol, price, "above",
                                                        TH[SecondEthKey])))
             ELSE IF symbol = AERO /\ NumGreater(price, th[AERO])
             THEN IF AERO \notin DOMAIN TH
                  THEN [alerts |-> alerts, raised |-> "KeyError"]
                  ELSE PriceLoop(prices, i + 1, th, TH,
                           Append(alerts, Alert(symbol, price, "above", TH[AERO])))
             ELSE PriceLoop(prices, i + 1, th, TH, alerts)

price_check(fetch, th, TH) == PriceLoop(get_prices(fetch), 1, th, TH, <<>>)

(***************************************************************************)
(* check_gigavault                                                         *)
(***************************************************************************)
Gigavault == <<"Gigavault">>

StoredOnIncrease(max_tvl, prev) == IF NumGreater(max_tvl, prev) THEN max_tvl ELSE prev

\* self.prev_max_tvl["Gigavault"] = max_tvl, whatever the comparison gave.
StoredAfter(max_tvl, prev) == max_tvl

ReadPrevZero(prev_tvl) == Fin(0, 1)

\* self.prev_max_tvl.get("Gigavault", 0)
ReadPrev(prev_tvl) ==
    IF Gigavault \in DOMAIN prev_tvl THEN prev_tvl[Gigavault] ELSE Fin(0, 1)

\* vault.get('max_tvl', 0)
MaxTvlOf(vault) == IF vault.has_max_tvl THEN vault.max_tvl ELSE Fin(0, 1)

\* The text of the notification of an increase.
VaultMessage(prev, max_tvl) ==
    [kind |-> "vault_increased", prev |-> prev, max_tvl |-> max_tvl,
     free_space |-> NumSub(max_tvl, prev)]

\* The loop of check_gigavault from vault i on, up to its next suspension:
\* either the loop ends, or it has read prev, found an increase and awaits
\* send_message (line 173) with the assignment of line 176 still to come.
RECURSIVE VaultRun(_, _, _)
VaultRun(results, i, prev_tvl) ==
    IF i > Len(results)
    THEN [at |-> "done", prev_max_tvl |-> prev_tvl]
    ELSE LET vault == results[i]
         IN  IF vault.name = Gigavault
             THEN LET max_tvl == MaxTvlOf(vault)
                      prev    == ReadPrev(prev_tvl)
                  IN  IF NumGreater(max_tvl, prev)
                      THEN [at |-> "vault_send", results |-> results, i |-> i,
                            prev |-> prev, max_tvl |-> max_tvl,
                            prev_max_tvl |-> prev_tvl]
                      ELSE VaultRun(results, i + 1,
                               (Gigavault :> StoredAfter(max_tvl, prev)) @@ prev_tvl)
             ELSE VaultRun(results, i + 1, prev_tvl)

\* The loop of check_gigavault from vault i on; prev_tvl is self.prev_max_tvl.
RECURSIVE VaultLoop(_, _, _, _)
VaultLoop(results, i, prev_tvl, msgs) ==
    IF i > Len(results)
    THEN [prev_max_tvl |-> prev_tvl, msgs |-> msgs, raised |-> "None"]
    ELSE LET vault == results[i]
         IN  IF vault.name = Gigavault
             THEN LET max_tvl == IF vault.has_max_tvl THEN vault.max_tvl ELSE Fin(0, 1)
                      prev    == IF Gigavault \in DOMAIN prev_tvl
                                 THEN prev_tvl[Gigavault] ELSE Fin(0, 1)
                      out     == IF NumGreater(max_tvl, prev)
                                 THEN Append(msgs,
                                          [kind |-> "vault_increased", prev |-> prev,
                                           max_tvl |-> max_tvl,
                                           free_space |-> NumSub(max_tvl, prev)])
                                 ELSE msgs
                  IN  VaultLoop(results, i + 1,
                                (Gigavault :> StoredAfter(max_tvl, prev)) @@ prev_tvl, out)
             ELSE VaultLoop(results, i + 1, prev_tvl, msgs)

\* check_gigavault: vaults is what get_gigavault_data returned, None after a
\* failed fetch. vaults['results'] raises on None (TypeError) and on a body
\* without the key (KeyError).
check_gigavault(vaults, prev_tvl) ==
    IF vaults.kind = "None"
    THEN [prev_max_tvl |-> prev_tvl, msgs |-> <<>>, raised |-> "TypeError"]
    ELSE IF ~vaults.has_results
    THEN [prev_max_tvl |-> prev_tvl, msgs |-> <<>>, raised |-> "KeyError"]
    ELSE VaultLoop(vaults.results, 1, prev_tvl, <<>>)

(***************************************************************************)
(* update_env_value and cmd_set                                            *)
(***************************************************************************)
\* The lines of a text as iterating the open file yields them: each ends
\* with its "\n", except a last line the text does not terminate.
RECURSIVE PyLinesAcc(_, _)
PyLinesAcc(s, cur) ==
    IF s = <<>> THEN (IF cur = <<>> THEN <<>> ELSE <<cur>>)
    ELSE IF Head(s) = "\n"
    THEN <<Append(cur, "\n")>> \o PyLinesAcc(Tail(s), <<>>)
    ELSE PyLinesAcc(Tail(s), Append(cur, Head(s)))

PyLines(text) == PyLinesAcc(text, <<>>)

\* f.writelines(lines): the lines one after the other, nothing added.
Writelines(lines) == Join(lines, <<>>)

\* update_env_value(env_path, key, value): file is the file at env_path.
update_env_value(file, key, value) ==
    LET old     == IF file.exists THEN PyLines(file.text) ELSE <<>>
        entry   == key \o <<"=">> \o value \o <<"\n">>
        hit(l)  == StartsWith(Strip(l), key \o <<"=">>)
        found   == \E i \in 1..Len(old) : hit(old[i])
        kept    == [i \in 1..Len(old) |-> IF hit(old[i]) THEN entry ELSE old[i]]
        lines   == IF found THEN kept ELSE Append(kept, entry)
    IN  [exists |-> TRUE, text |-> Writelines(lines)]

FloatNeverRaises(new_value) == FALSE

\* except ValueError around float(value_str).
FloatRaises(new_value) == new_value.k = "ValueError"

\* cmd_set up to the point where it persists: the reply, the new
\* self.thresholds, and the (key, value) it hands to update_env_value.
cmd_set(args, th) ==
    IF Len(args) # 2
    THEN [reply |-> "usage", thresholds |-> th, key |-> <<>>, value |-> <<>>]
    ELSE LET symbol    == Upper(args[1])
             value_str == Replace(args[2], ",", ".")
             new_value == ParseFloat(value_str)
         IN  IF symbol \notin DOMAIN th
             THEN [reply |-> "unknown_symbol", thresholds |-> th,
                   key |-> <<>>, value |-> <<>>]
             ELSE IF FloatRaises(new_value)
             THEN [reply |-> "bad_number", thresholds |-> th,
                   key |-> <<>>, value |-> <<>>]
             ELSE [reply |-> "updated",
                   thresholds |-> [th EXCEPT ![symbol] = new_value],
                   key |-> CriticalPriceKey(symbol), value |-> value_str]

(***************************************************************************)
(* State                                                                   *)
(***************************************************************************)
VARIABLES
    env_file,             \* config.env: [exists, text]
    environ,              \* os.environ of the running process
    THRESHOLDS,           \* the module-level dict, set at import
    ETH_RPC_URLS,         \* the module-level list, set at import
    thresholds,           \* self.thresholds
    prev_max_tvl,         \* self.prev_max_tvl
    gas_below_threshold,  \* self.gas_below_threshold: "None", "True", "False"
    pc,                   \* where run_checks stands
    sent,                 \* the send_message calls of the last handler
    ev,                   \* the last handler: its inputs and its outcome
    tick_log,             \* the checks the current tick has run
    gas_prev_side,        \* the side of the last sample gas_check was given
    set_log,              \* per signal, the value of its last accepted /set
    gas_undelivered,      \* the last gas notification was not delivered
    session,              \* the aiohttp.ClientSession: "open" or "closed"
    scheduler,            \* self.scheduler: "running" or "stopped"
    main_pc,              \* where main stands
    daily_pc,             \* where a running send_daily_prices stands
    fast_local            \* the locals of the check run_checks is suspended in

\* The variables of the process around the checks.
procvars == << session, scheduler, main_pc, daily_pc, fast_local >>

vars == << env_file, environ, THRESHOLDS, ETH_RPC_URLS, thresholds, prev_max_tvl,
           gas_below_threshold, pc, sent, ev, tick_log, gas_prev_side, set_log,
           gas_undelivered, procvars >>

\* No check is suspended.
NoLocal == [at |-> "none"]

\* No send_daily_prices is running.
DailyIdle == [at |-> "idle"]

\* main has entered its polling loop: the session is open, the daily job is
\* scheduled and started, no digest is running.
Polling ==
    /\ session = "open"
    /\ scheduler = "running"
    /\ main_pc = "polling"
    /\ daily_pc = DailyIdle
    /\ fast_local = NoLocal

\* The process environment before load_dotenv.
BaseEnviron == EmptyEnviron

\* The state after import, CryptoBot.__init__ and the start of run_checks,
\* for a config.env whose THRESHOLDS values parse.
Started(file) ==
    LET env == LoadDotenv(file, BaseEnviron)
    IN  /\ ImportOk(env)
        /\ env_file = file
        /\ environ = env
        /\ THRESHOLDS = ModuleThresholds(env)
        /\ ETH_RPC_URLS = ModuleRpcUrls(env)
        /\ thresholds = ModuleThresholds(env)
        /\ prev_max_tvl = (Gigavault :> ModuleStartMaxTvl(env))
        /\ gas_below_threshold = "None"
        /\ pc = "price_check"
        /\ sent = <<>>
        /\ ev = [op |-> "start"]
        /\ tick_log = <<>>
        /\ gas_prev_side = "None"
        /\ set_log = EmptyEnviron
        /\ gas_undelivered = FALSE
        /\ Polling

\* send_message per message: the delivery succeeds or its exception is
\* caught and logged.
Deliver(msgs, dl) == [i \in 1..Len(msgs) |-> [msg |-> msgs[i], delivered |-> dl[i]]]

(***************************************************************************)
(* The handlers                                                            *)
(***************************************************************************)
CHECK_INTERVAL == 300
BACKOFF_SECONDS == 60

\* One pass of run_checks reaches price_check.
PriceCheck(fetch) ==
    /\ pc = "price_check"
    /\ LET r == price_check(fetch, thresholds, THRESHOLDS)
       IN  /\ \E dl \in [1..Len(r.alerts) -> BOOLEAN] : sent' = Deliver(r.alerts, dl)
           /\ ev' = [op |-> "price_check", fetch |-> fetch,
                     prices |-> get_prices(fetch), raised |-> r.raised]
           /\ tick_log' = Append(tick_log,
                                 [op |-> "price_check", raised |-> r.raised,
                                  fetch_failed |-> fetch.kind = "exception"])
           /\ pc' = IF r.raised = "None" THEN "check_gigavault" ELSE "backoff"
    /\ UNCHANGED << env_file, environ, THRESHOLDS, ETH_RPC_URLS, thresholds,
                    prev_max_tvl, gas_below_threshold, gas_prev_side, set_log >>
    /\ UNCHANGED << gas_undelivered, procvars >>

CheckGigavault(vaults) ==
    /\ pc = "check_gigavault"
    /\ LET r == check_gigavault(vaults, prev_max_tvl)
       IN  /\ prev_max_tvl' = r.prev_max_tvl
           /\ \E dl \in [1..Len(r.msgs) -> BOOLEAN] : sent' = Deliver(r.msgs, dl)
           /\ ev' = [op |-> "check_gigavault", vaults |-> vaults,
                     prev |-> prev_max_tvl, raised |-> r.raised]
           /\ tick_log' = Append(tick_log,
                                 [op |-> "check_gigavault", raised |-> r.raised,
                                  fetch_failed |-> vaults.kind = "None"])
           /\ pc' = IF r.raised = "None" THEN "gas_check" ELSE "backoff"
    /\ UNCHANGED << env_file, environ, THRESHOLDS, ETH_RPC_URLS, thresholds,
                    gas_below_threshold, gas_prev_side, set_log >>
    /\ UNCHANGED << gas_undelivered, procvars >>

\* The side of critical a fetched sample is on.
GasSide(gas_gwei, critical) == IF NumLess(gas_gwei, critical) THEN "below" ELSE "above"

GasCheck(resps) ==
    /\ pc = "gas_check"
    /\ LET gas      == get_eth_gas_gwei(ETH_RPC_URLS, resps)
           critical == GasCritical(environ)
           r        == gas_check(gas_below_threshold, gas, critical)
       IN  /\ gas_below_threshold' = r.flag
           /\ \E dl \in [1..Len(r.msgs) -> BOOLEAN] :
                 /\ sent' = Deliver(r.msgs, dl)
                 /\ gas_undelivered' = IF r.msgs = <<>> THEN gas_undelivered
                                        ELSE ~dl[1]
           /\ ev' = [op |-> "gas_check", gas |-> gas, critical |-> critical,
                     prev_flag |-> gas_below_threshold, prev_side |-> gas_prev_side,
                     prev_undelivered |-> gas_undelivered]
           /\ gas_prev_side' = IF gas.gwei.k = "None" THEN gas_prev_side
                               ELSE GasSide(gas.gwei, critical)
           /\ tick_log' = Append(tick_log,
                                 [op |-> "gas_check", raised |-> "None",
                                  fetch_failed |-> gas.gwei.k = "None"])
           /\ pc' = "sleep"
    /\ UNCHANGED << env_file, environ, THRESHOLDS, ETH_RPC_URLS, thresholds,
                    prev_max_tvl, set_log >>
    /\ UNCHANGED procvars

SleepIntoVaultCheck ==
    /\ pc = "sleep"
    /\ pc' = "check_gigavault"
    /\ ev' = [op |-> "sleep", seconds |-> CHECK_INTERVAL]
    /\ sent' = <<>>
    /\ tick_log' = <<>>
    /\ UNCHANGED << env_file, environ, THRESHOLDS, ETH_RPC_URLS, thresholds,
                    prev_max_tvl, gas_below_threshold, gas_prev_side, set_log >>
    /\ UNCHANGED << gas_undelivered, procvars >>

\* await asyncio.sleep(CHECK_INTERVAL) at the end of a pass.
Sleep ==
    /\ pc = "sleep"
    /\ pc' = "price_check"
    /\ ev' = [op |-> "sleep", seconds |-> CHECK_INTERVAL]
    /\ sent' = <<>>
    /\ tick_log' = <<>>
    /\ UNCHANGED << env_file, environ, THRESHOLDS, ETH_RPC_URLS, thresholds,
                    prev_max_tvl, gas_below_threshold, gas_prev_side, set_log >>
    /\ UNCHANGED << gas_undelivered, procvars >>

BackoffEndsLoop ==
    /\ pc = "backoff"
    /\ pc' = "crashed"
    /\ ev' = [op |-> "backoff", seconds |-> BACKOFF_SECONDS]
    /\ sent' = <<>>
    /\ tick_log' = <<>>
    /\ UNCHANGED << env_file, environ, THRESHOLDS, ETH_RPC_URLS, thresholds,
                    prev_max_tvl, gas_below_threshold, gas_prev_side, set_log >>
    /\ UNCHANGED << gas_undelivered, procvars >>

\* The except branch of run_checks: the error is logged, then sleep(60).
Backoff ==
    /\ pc = "backoff"
    /\ pc' = "price_check"
    /\ ev' = [op |-> "backoff", seconds |-> BACKOFF_SECONDS]
    /\ sent' = <<>>
    /\ tick_log' = <<>>
    /\ UNCHANGED << env_file, environ, THRESHOLDS, ETH_RPC_URLS, thresholds,
                    prev_max_tvl, gas_below_threshold, gas_prev_side, set_log >>
    /\ UNCHANGED << gas_undelivered, procvars >>

\* What the file system makes of update_env_value: the file is written; an
\* open() raises OSError and the file is as it was; open(env_path, "w") has
\* truncated the file and the write raises OSError.
WriteOutcomes == {"written", "open_raises", "write_raises"}

\* The file update_env_value leaves behind.
FileAfter(file, key, value, write) ==
    CASE write = "written" -> update_env_value(file, key, value)
      [] write = "open_raises" -> file
      [] write = "write_raises" -> [exists |-> TRUE, text |-> <<>>]

\* The operator command /set with context.args = args. self.thresholds is
\* assigned before update_env_value is called; an OSError of the write leaves
\* the handler before os.environ is set and before the reply.
CmdSet(args, write) ==
    /\ pc # "crashed"
    /\ LET r == cmd_set(args, thresholds)
       IN  /\ thresholds' = r.thresholds
           /\ IF r.reply = "updated"
              THEN /\ env_file' = FileAfter(env_file, r.key, r.value, write)
                   /\ environ' = IF write = "written"
                                 THEN (r.key :> r.value) @@ environ
                                 ELSE environ
                   /\ set_log' = (Upper(args[1]) :> r.value) @@ set_log
              ELSE UNCHANGED << env_file, environ, set_log >>
           /\ ev' = [op |-> "cmd_set", args |-> args,
                     reply |-> IF r.reply = "updated" /\ write # "written"
                               THEN "OSError" ELSE r.reply,
                     old |-> thresholds, old_file |-> env_file]
    /\ sent' = <<>>
    /\ UNCHANGED << THRESHOLDS, ETH_RPC_URLS, prev_max_tvl, gas_below_threshold,
                    pc, tick_log, gas_prev_side >>
    /\ UNCHANGED << gas_undelivered, procvars >>

\* The process is stopped and started again: config.env is what is left.
Restart ==
    /\ LET env == LoadDotenv(env_file, BaseEnviron)
       IN  IF ImportOk(env)
           THEN /\ environ' = env
                /\ THRESHOLDS' = ModuleThresholds(env)
                /\ ETH_RPC_URLS' = ModuleRpcUrls(env)
                /\ thresholds' = ModuleThresholds(env)
                /\ prev_max_tvl' = (Gigavault :> ModuleStartMaxTvl(env))
                /\ pc' = "price_check"
           ELSE /\ pc' = "crashed"
                /\ UNCHANGED << environ, THRESHOLDS, ETH_RPC_URLS, thresholds,
                                prev_max_tvl >>
    /\ gas_below_threshold' = "None"
    /\ gas_prev_side' = "None"
    /\ gas_undelivered' = FALSE
    /\ session' = "open"
    /\ scheduler' = "running"
    /\ main_pc' = "polling"
    /\ daily_pc' = DailyIdle
    /\ fast_local' = NoLocal
    /\ sent' = <<>>
    /\ tick_log' = <<>>
    /\ ev' = [op |-> "restart"]
    /\ UNCHANGED << env_file, set_log >>

\* A call of get_eth_gas_gwei (by gas_check, send_daily_prices or cmd_price),
\* with what it returned.
RpcCall(resps) ==
    /\ pc # "crashed"
    /\ ev' = [op |-> "get_eth_gas_gwei", urls |-> ETH_RPC_URLS, resps |-> resps,
              out |-> get_eth_gas_gwei(ETH_RPC_URLS, resps)]
    /\ sent' = <<>>
    /\ UNCHANGED << env_file, environ, THRESHOLDS, ETH_RPC_URLS, thresholds,
                    prev_max_tvl, gas_below_threshold, pc, tick_log, gas_prev_side,
                    set_log >>
    /\ UNCHANGED << gas_undelivered, procvars >>

(***************************************************************************)
(* check_gigavault step by step, send_daily_prices, shutdown               *)
(***************************************************************************)
\* check_gigavault resumes after await get_gigavault_data() and runs to its
\* next suspension.
VaultFetched(vaults) ==
    /\ pc = "check_gigavault"
    /\ fast_local = NoLocal
    /\ LET raised == IF vaults.kind = "None" THEN "TypeError"
                     ELSE IF ~vaults.has_results THEN "KeyError" ELSE "None"
           r == IF raised = "None" THEN VaultRun(vaults.results, 1, prev_max_tvl)
                ELSE [at |-> "done", prev_max_tvl |-> prev_max_tvl]
       IN  /\ prev_max_tvl' = r.prev_max_tvl
           /\ fast_local' = IF r.at = "done" THEN NoLocal
                             ELSE [at |-> "vault_send", results |-> r.results,
                                   i |-> r.i, prev |-> r.prev, max_tvl |-> r.max_tvl]
           /\ pc' = IF raised # "None" THEN "backoff"
                     ELSE IF r.at = "done" THEN "gas_check" ELSE pc
           /\ tick_log' = IF r.at = "done"
                           THEN Append(tick_log,
                                    [op |-> "check_gigavault", raised |-> raised,
                                     fetch_failed |-> vaults.kind = "None"])
                           ELSE tick_log
           /\ ev' = [op |-> "vault_fetched", vaults |-> vaults, raised |-> raised]
    /\ sent' = <<>>
    /\ UNCHANGED << env_file, environ, THRESHOLDS, ETH_RPC_URLS, thresholds,
                    gas_below_threshold, gas_prev_side, set_log, gas_undelivered,
                    session, scheduler, main_pc, daily_pc >>

\* check_gigavault resumes after await send_message(msg): the assignment of
\* line 176, then the loop goes on to its next suspension.
VaultSent(delivered) ==
    /\ pc = "check_gigavault"
    /\ fast_local.at = "vault_send"
    /\ LET written == (Gigavault :> StoredAfter(fast_local.max_tvl, fast_local.prev))
                          @@ prev_max_tvl
           r == VaultRun(fast_local.results, fast_local.i + 1, written)
       IN  /\ prev_max_tvl' = r.prev_max_tvl
           /\ fast_local' = IF r.at = "done" THEN NoLocal
                             ELSE [at |-> "vault_send", results |-> r.results,
                                   i |-> r.i, prev |-> r.prev, max_tvl |-> r.max_tvl]
           /\ pc' = IF r.at = "done" THEN "gas_check" ELSE pc
           /\ tick_log' = IF r.at = "done"
                           THEN Append(tick_log,
                                    [op |-> "check_gigavault", raised |-> "None",
                                     fetch_failed |-> FALSE])
                           ELSE tick_log
           /\ sent' = Deliver(<<VaultMessage(fast_local.prev, fast_local.max_tvl)>>,
                              <<delivered>>)
           /\ ev' = [op |-> "vault_sent", read_prev |-> fast_local.prev,
                     stored_at_write |-> prev_max_tvl[Gigavault],
                     max_tvl |-> fast_local.max_tvl, after |-> ev.op]
    /\ UNCHANGED << env_file, environ, THRESHOLDS, ETH_RPC_URLS, thresholds,
                    gas_below_threshold, gas_prev_side, set_log, gas_undelivered,
                    session, scheduler, main_pc, daily_pc >>

send_daily_prices_or_nothing(prices, gas) ==
    IF prices = <<>> /\ gas.gwei.k = "None" THEN <<>>
    ELSE << [kind |-> "digest", prices_failed |-> prices = <<>>, prices |-> prices,
             gas_failed |-> gas.gwei.k = "None", gas |-> gas.gwei,
             gerr |-> gas.gerr] >>

\* send_daily_prices after its two fetches: the one message it hands to
\* send_message. prices is in the order BTC, ETH, AERO, which is the order of
\* COINS.
send_daily_prices(prices, gas) ==
    << [kind |-> "digest", prices_failed |-> prices = <<>>, prices |-> prices,
        gas_failed |-> gas.gwei.k = "None", gas |-> gas.gwei, gerr |-> gas.gerr] >>

\* The cron trigger fires: the scheduler starts send_daily_prices, which
\* suspends in get_prices.
DailyFire ==
    /\ scheduler = "running"
    /\ daily_pc = DailyIdle
    /\ daily_pc' = [at |-> "get_prices"]
    /\ ev' = [op |-> "daily_fire", fast |-> pc]
    /\ sent' = <<>>
    /\ UNCHANGED << env_file, environ, THRESHOLDS, ETH_RPC_URLS, thresholds,
                    prev_max_tvl, gas_below_threshold, pc, tick_log, gas_prev_side,
                    set_log, gas_undelivered, session, scheduler, main_pc,
                    fast_local >>

\* send_daily_prices resumes after await get_prices().
DailyPrices(fetch) ==
    /\ daily_pc.at = "get_prices"
    /\ daily_pc' = [at |-> "get_eth_gas_gwei", prices |-> get_prices(fetch)]
    /\ ev' = [op |-> "daily_prices", fetch |-> fetch]
    /\ sent' = <<>>
    /\ UNCHANGED << env_file, environ, THRESHOLDS, ETH_RPC_URLS, thresholds,
                    prev_max_tvl, gas_below_threshold, pc, tick_log, gas_prev_side,
                    set_log, gas_undelivered, session, scheduler, main_pc,
                    fast_local >>

\* send_daily_prices resumes after await get_eth_gas_gwei().
DailyGas(resps) ==
    /\ daily_pc.at = "get_eth_gas_gwei"
    /\ daily_pc' = [at |-> "send_message", prices |-> daily_pc.prices,
                    gas |-> get_eth_gas_gwei(ETH_RPC_URLS, resps)]
    /\ ev' = [op |-> "daily_gas", resps |-> resps]
    /\ sent' = <<>>
    /\ UNCHANGED << env_file, environ, THRESHOLDS, ETH_RPC_URLS, thresholds,
                    prev_max_tvl, gas_below_threshold, pc, tick_log, gas_prev_side,
                    set_log, gas_undelivered, session, scheduler, main_pc,
                    fast_local >>

\* send_daily_prices hands its message to send_message and ends.
DailySend(delivered) ==
    /\ daily_pc.at = "send_message"
    /\ LET msgs == send_daily_prices(daily_pc.prices, daily_pc.gas)
       IN  \E dl \in [1..Len(msgs) -> {delivered}] : sent' = Deliver(msgs, dl)
    /\ daily_pc' = DailyIdle
    /\ ev' = [op |-> "send_daily_prices", prices |-> daily_pc.prices,
              gas |-> daily_pc.gas, fast |-> pc]
    /\ UNCHANGED << env_file, environ, THRESHOLDS, ETH_RPC_URLS, thresholds,
                    prev_max_tvl, gas_below_threshold, pc, tick_log, gas_prev_side,
                    set_log, gas_undelivered, session, scheduler, main_pc,
                    fast_local >>

\* main is cancelled in its polling loop and awaits bot.shutdown():
\* scheduler.shutdown(), then session.close(). run_checks is a task nobody
\* holds: it is cancelled with main when the interpreter cancels every task
\* at once (cancel_all), otherwise it goes on until main has returned. The
\* scheduler's executor may cancel a digest that is running (cancel_digest).
Shutdown(cancel_all, cancel_digest) ==
    /\ main_pc = "polling"
    /\ scheduler' = "stopped"
    /\ session' = "closed"
    /\ main_pc' = "send_message"
    /\ pc' = IF cancel_all THEN "cancelled" ELSE pc
    /\ fast_local' = IF cancel_all THEN NoLocal ELSE fast_local
    /\ daily_pc' = IF cancel_all \/ cancel_digest THEN DailyIdle ELSE daily_pc
    /\ ev' = [op |-> "shutdown", fast |-> pc', daily |-> daily_pc']
    /\ sent' = <<>>
    /\ UNCHANGED << env_file, environ, THRESHOLDS, ETH_RPC_URLS, thresholds,
                    prev_max_tvl, gas_below_threshold, tick_log, gas_prev_side,
                    set_log, gas_undelivered >>

\* shutdown: await self.send_message("stopped").
SendStopped(delivered) ==
    /\ main_pc = "send_message"
    /\ main_pc' = "app_stop"
    /\ sent' = Deliver(<<[kind |-> "stopped"]>>, <<delivered>>)
    /\ ev' = [op |-> "send_stopped"]
    /\ UNCHANGED << env_file, environ, THRESHOLDS, ETH_RPC_URLS, thresholds,
                    prev_max_tvl, gas_below_threshold, pc, tick_log, gas_prev_side,
                    set_log, gas_undelivered, session, scheduler, daily_pc,
                    fast_local >>

\* The application is stopped, the async with block closes the session
\* again (nothing left to close), main returns and asyncio.run cancels the
\* tasks that are left.
Exit ==
    /\ main_pc = "app_stop"
    /\ main_pc' = "exited"
    /\ pc' = "cancelled"
    /\ fast_local' = NoLocal
    /\ daily_pc' = DailyIdle
    /\ ev' = [op |-> "exit"]
    /\ sent' = <<>>
    /\ UNCHANGED << env_file, environ, THRESHOLDS, ETH_RPC_URLS, thresholds,
                    prev_max_tvl, gas_below_threshold, tick_log, gas_prev_side,
                    set_log, gas_undelivered, session, scheduler >>

(***************************************************************************)
(* Inputs                                                                  *)
(***************************************************************************)
MaxVaults == 2

HexChars ==
    << "0", "1", "2", "3", "4", "5", "6", "7", "8", "9", "a", "b", "c", "d", "e", "f" >>

\* The "0x..." text of a number, as an endpoint writes it.
RECURSIVE ToHex(_)
ToHex(n) ==
    IF n < 16 THEN <<HexChars[n + 1]>>
    ELSE ToHex(n \div 16) \o <<HexChars[(n % 16) + 1]>>

OkResp(wei) ==
    [kind |-> "http", status |-> "200", json_dict |-> TRUE, result_none |-> FALSE,
     is_str |-> TRUE, result |-> <<"0", "x">> \o ToHex(wei), wei |-> wei]

ExceptionResp ==
    [kind |-> "exception", status |-> "", json_dict |-> FALSE, result_none |-> TRUE,
     is_str |-> FALSE, result |-> <<>>, wei |-> 0]

\* 0.5, 1.5 and 2 gwei.
GasSamples == {500000000, 1500000000, 2000000000}

MainRpcResps == {ExceptionResp} \cup {OkResp(w) : w \in GasSamples}

Quote(n, d) == [has_usd |-> TRUE, usd |-> Fin(n, d)]
NoUsd == [has_usd |-> FALSE, usd |-> NoneNum]

QuotesOf(cgid) ==
    CASE cgid = <<"bitcoin">> -> {Quote(94000, 1), Quote(97000, 1), Quote(99500, 1)}
      [] cgid = <<"ethereum">> -> {Quote(2900, 1), Quote(3100, 1), Quote(3500, 1)}
      [] cgid = <<"aerodrome-finance">> -> {Quote(1, 10), Quote(3, 10), Quote(9, 10)}

Cgids == {COINS[i].cgid : i \in 1..Len(COINS)}

AllQuotes == UNION {QuotesOf(c) : c \in Cgids}

PriceData ==
    {f \in UNION {[sub -> AllQuotes] : sub \in SUBSET Cgids} :
        \A c \in DOMAIN f : f[c] \in QuotesOf(c)}

PriceFetches ==
    {[kind |-> "exception", data |-> EmptyEnviron]}
    \cup {[kind |-> "json", data |-> f] : f \in PriceData}
    \cup {[kind |-> "json",
           data |-> (<<"bitcoin">> :> NoUsd) @@ (<<"ethereum">> :> Quote(3500, 1))]}

VaultEntries ==
    { [name |-> Gigavault, has_max_tvl |-> TRUE, max_tvl |-> Fin(80000000, 1)],
      [name |-> Gigavault, has_max_tvl |-> TRUE, max_tvl |-> Fin(100000000, 1)],
      [name |-> Gigavault, has_max_tvl |-> FALSE, max_tvl |-> NoneNum],
      [name |-> <<"Other">>, has_max_tvl |-> TRUE, max_tvl |-> Fin(500, 1)] }

VaultFetches ==
    { [kind |-> "None", has_results |-> FALSE, results |-> <<>>],
      [kind |-> "json", has_results |-> FALSE, results |-> <<>>] }
    \cup {[kind |-> "json", has_results |-> TRUE, results |-> rs] :
             rs \in UNION {[1..n -> VaultEntries] : n \in 0..MaxVaults}}

MainSetArgs ==
    { << <<"b", "t", "c">>, <<"9", "5", "0", "0", "0">> >>,
      << ETH, <<"3", "0", "0", "0">> >>,
      << AERO, <<"0", ",", "5">> >>,
      << BTC, <<"1", "0", "0", "0", "0", "0">> >> }

NoFile == [exists |-> FALSE, text |-> <<>>]

GasFile == [exists |-> TRUE, text |-> GAS_CRITICAL_GWEI \o <<"=", "1", ",", "5", "\n">>]

MainFiles == {NoFile, GasFile}

\* Answers on which a check has nothing to evaluate: the price fetch fails,
\* the vault list is empty, every endpoint fails.
QuietPriceFetches == {[kind |-> "exception", data |-> EmptyEnviron]}
QuietVaultFetches == {[kind |-> "json", has_results |-> TRUE, results |-> <<>>]}
QuietRpcResps == {ExceptionResp}

TickPriceFetches ==
    QuietPriceFetches
    \cup {[kind |-> "json", data |-> (<<"bitcoin">> :> Quote(94000, 1))],
          [kind |-> "json", data |-> (<<"ethereum">> :> Quote(2900, 1))]}

TickVaultFetches ==
    { [kind |-> "None", has_results |-> FALSE, results |-> <<>>],
      [kind |-> "json", has_results |-> FALSE, results |-> <<>>],
      [kind |-> "json", has_results |-> TRUE,
       results |-> <<[name |-> Gigavault, has_max_tvl |-> TRUE,
                      max_tvl |-> Fin(100000000, 1)]>>] }


(***************************************************************************)
(* The monitoring process: the passes of run_checks                        *)
(***************************************************************************)
Init == \E file \in MainFiles : Started(file)

Next ==
    \/ \E fetch \in TickPriceFetches : PriceCheck(fetch)
    \/ \E vaults \in TickVaultFetches : CheckGigavault(vaults)
    \/ \E resps \in [1..Len(ETH_RPC_URLS) -> MainRpcResps] : GasCheck(resps)
    \/ Sleep
    \/ Backoff

Spec == Init /\ [][Next]_vars

\* run_checks is a task of the event loop: every request it awaits carries
\* timeout=30 and both sleeps are finite, so the step it waits for comes.
SpecLive == Init /\ [][Next]_vars /\ WF_vars(Next)

(***************************************************************************)
(* The price signals: every answer of the price source, and /set           *)
(***************************************************************************)
InitPrice == Started(NoFile)

NextPrice ==
    \/ \E fetch \in PriceFetches : PriceCheck(fetch)
    \/ \E vaults \in QuietVaultFetches : CheckGigavault(vaults)
    \/ \E resps \in [1..Len(ETH_RPC_URLS) -> QuietRpcResps] : GasCheck(resps)
    \/ Sleep
    \/ Backoff
    \/ \E args \in MainSetArgs : CmdSet(args, "written")

SpecPrice == InitPrice /\ [][NextPrice]_vars

(***************************************************************************)
(* The vault signal: every answer of the vault source                      *)
(***************************************************************************)
InitVault == Started(NoFile)

NextVault ==
    \/ \E fetch \in QuietPriceFetches : PriceCheck(fetch)
    \/ \E vaults \in VaultFetches : CheckGigavault(vaults)
    \/ \E resps \in [1..Len(ETH_RPC_URLS) -> QuietRpcResps] : GasCheck(resps)
    \/ Sleep
    \/ Backoff

SpecVault == InitVault /\ [][NextVault]_vars

(***************************************************************************)
(* The gas signal: every sequence of samples                               *)
(***************************************************************************)
InitGas == \E file \in MainFiles : Started(file)

NextGas ==
    \/ \E fetch \in QuietPriceFetches : PriceCheck(fetch)
    \/ \E vaults \in TickVaultFetches : CheckGigavault(vaults)
    \/ \E resps \in [1..Len(ETH_RPC_URLS) -> MainRpcResps] : GasCheck(resps)
    \/ Sleep
    \/ Backoff

SpecGas == InitGas /\ [][NextGas]_vars

(***************************************************************************)
(* The RPC fallback: every list of entries, every answer of each endpoint  *)
(***************************************************************************)
BadResp(status, json_dict, result_none, is_str, result) ==
    [kind |-> "http", status |-> status, json_dict |-> json_dict,
     result_none |-> result_none, is_str |-> is_str, result |-> result, wei |-> 0]

FailResps ==
    { ExceptionResp,
      BadResp("503", TRUE, FALSE, TRUE, <<"0", "x", "1">>),
      BadResp("200", FALSE, TRUE, FALSE, <<>>),
      BadResp("200", TRUE, TRUE, FALSE, <<>>),
      BadResp("200", TRUE, FALSE, FALSE, <<"7">>),
      BadResp("200", TRUE, FALSE, TRUE, <<>>),
      BadResp("200", TRUE, FALSE, TRUE, <<"1", "f">>),
      BadResp("200", TRUE, FALSE, TRUE, <<"0", "x">>),
      BadResp("200", TRUE, FALSE, TRUE, <<"0", "x", "z">>) }

RpcResps == FailResps \cup {OkResp(0), OkResp(500000000), OkResp(2000000000)}

RpcFile(value) == [exists |-> TRUE, text |-> ETH_RPC_URLS_KEY \o <<"=">> \o value \o <<"\n">>]

RpcFiles ==
    { NoFile,
      RpcFile(<<"u1", ",", ",", "u2">>),
      RpcFile(<<"u1", ",", " ", "u2", ",">>),
      RpcFile(<<>>) }

InitRpc == \E file \in RpcFiles : Started(file)

\* The caller goes on; the next call starts from nothing kept.
RpcReturn ==
    /\ ev.op = "get_eth_gas_gwei"
    /\ ev' = [op |-> "start"]
    /\ UNCHANGED << env_file, environ, THRESHOLDS, ETH_RPC_URLS, thresholds,
                    prev_max_tvl, gas_below_threshold, pc, sent, tick_log,
                    gas_prev_side, set_log >>
    /\ UNCHANGED << gas_undelivered, procvars >>

NextRpc ==
    \/ /\ ev.op = "start"
       /\ \E resps \in [1..Len(ETH_RPC_URLS) -> RpcResps] : RpcCall(resps)
    \/ RpcReturn

SpecRpc == InitRpc /\ [][NextRpc]_vars

(***************************************************************************)
(* The threshold overrides: /set, config.env and the restart               *)
(***************************************************************************)
EnvText(lines) == [exists |-> TRUE, text |-> Join(lines, <<>>)]

Num90000 == <<"9", "0", "0", "0", "0">>
Num3000 == <<"3", "0", "0", "0">>

EnvFiles ==
    { NoFile,
      EnvText(<< <<"TELEGRAM_TOKEN", "=", "abc">> >>),
      EnvText(<< CriticalPriceKey(BTC) \o <<"=">> \o Num90000 \o <<"\n">>,
                 CriticalPriceKey(ETH) \o <<"=">> \o Num3000 \o <<"\n">> >>),
      EnvText(<< <<"#", " ", "thresholds", "\n">>,
                 <<" ">> \o CriticalPriceKey(BTC) \o <<"=">> \o Num90000 \o <<"\n">> >>),
      EnvText(<< CriticalPriceKey(BTC) \o <<" ", "=", " ">> \o Num90000 \o <<"\n">> >>),
      EnvText(<< CriticalPriceKey(ETH) \o <<"=">> \o Num3000 >>) }

EnvSetArgs ==
    { << <<"b", "t", "c">>, <<"9", "5", "0", "0", "0">> >>,
      << BTC, <<"-", "5">> >>,
      << ETH, <<"n", "a", "n">> >>,
      << AERO, <<"0", ",", "5">> >>,
      << CRV, <<"0", ".", "9">> >>,
      << BTC, <<"x">> >>,
      << BTC >> }

InitEnv == \E file \in EnvFiles : Started(file)

NextEnv ==
    \/ \E args \in EnvSetArgs : CmdSet(args, "written")
    \/ Restart

SpecEnv == InitEnv /\ [][NextEnv]_vars

(***************************************************************************)
(* /set when the write of config.env can fail                              *)
(***************************************************************************)
WriteFiles ==
    { NoFile,
      EnvText(<< CriticalPriceKey(BTC) \o <<"=">> \o Num90000 \o <<"\n">>,
                 CriticalPriceKey(ETH) \o <<"=">> \o Num3000 \o <<"\n">> >>) }

WriteSetArgs ==
    { << <<"b", "t", "c">>, <<"9", "5", "0", "0", "0">> >>,
      << ETH, <<"3", "1", "0", "0">> >>,
      << AERO, <<"0", ",", "5">> >>,
      << BTC, <<"x">> >> }

InitWrite == \E file \in WriteFiles : Started(file)

NextWrite == \E args \in WriteSetArgs, write \in WriteOutcomes : CmdSet(args, write)

SpecWrite == InitWrite /\ [][NextWrite]_vars

(***************************************************************************)
(* The process: run_checks, the daily digest, /set and the shutdown, at    *)
(* their suspension points                                                 *)
(***************************************************************************)
\* A request on a closed session raises inside the fetcher, which catches.
ProcPriceFetches == IF session = "open" THEN TickPriceFetches ELSE QuietPriceFetches

FailedVaultFetch == [kind |-> "None", has_results |-> FALSE, results |-> <<>>]

TwoIncreases ==
    [kind |-> "json", has_results |-> TRUE,
     results |-> << [name |-> Gigavault, has_max_tvl |-> TRUE,
                     max_tvl |-> Fin(100000000, 1)],
                    [name |-> Gigavault, has_max_tvl |-> TRUE,
                     max_tvl |-> Fin(80000000, 1)] >>]

ProcVaultFetches ==
    IF session = "open" THEN TickVaultFetches \cup {TwoIncreases}
    ELSE {FailedVaultFetch}

DigestRpcResps == {ExceptionResp, OkResp(1500000000)}

ProcRpcResps == IF session = "open" THEN DigestRpcResps ELSE QuietRpcResps

ProcSetArgs == { << BTC, <<"9", "5", "0", "0", "0">> >> }

InitProc == Started(GasFile)

NextProc ==
    \/ \E fetch \in ProcPriceFetches : PriceCheck(fetch)
    \/ \E vaults \in ProcVaultFetches : VaultFetched(vaults)
    \/ \E delivered \in BOOLEAN : VaultSent(delivered)
    \/ \E resps \in [1..Len(ETH_RPC_URLS) -> ProcRpcResps] : GasCheck(resps)
    \/ Sleep
    \/ Backoff
    \/ DailyFire
    \/ \E fetch \in ProcPriceFetches : DailyPrices(fetch)
    \/ \E resps \in [1..Len(ETH_RPC_URLS) -> ProcRpcResps] : DailyGas(resps)
    \/ \E delivered \in BOOLEAN : DailySend(delivered)
    \/ main_pc = "polling" /\ \E args \in ProcSetArgs : CmdSet(args, "written")
    \/ \E cancel_all, cancel_digest \in BOOLEAN : Shutdown(cancel_all, cancel_digest)
    \/ \E delivered \in BOOLEAN : SendStopped(delivered)
    \/ Exit

SpecProc == InitProc /\ [][NextProc]_vars

(***************************************************************************)
(* Properties                                                              *)
(***************************************************************************)
AlertsFor(symbol) ==
    {j \in 1..Len(sent) : sent[j].msg.kind = "alert" /\ sent[j].msg.symbol = symbol}

Sampled(symbol) == {i \in 1..Len(ev.prices) : ev.prices[i].symbol = symbol}

\* C1: a gas_check that was given a sample sends one notification when the
\* sample is on the other side of critical than the previous sample, none
\* when it is on the same side; on the first sample it sends one exactly
\* when the sample is below critical. The kind of the notification tells the
\* direction.
C1_GasOneNotificationPerCrossing ==
    (ev.op = "gas_check" /\ ev.gas.gwei.k # "None") =>
        LET side == GasSide(ev.gas.gwei, ev.critical)
        IN  /\ ev.prev_side = "None" /\ side = "below" =>
                   Len(sent) = 1 /\ sent[1].msg.kind = "gas_already_below"
            /\ ev.prev_side = "None" /\ side = "above" => sent = <<>>
            /\ ev.prev_side = "above" /\ side = "below" =>
                   Len(sent) = 1 /\ sent[1].msg.kind = "gas_dropped_below"
            /\ ev.prev_side = "below" /\ side = "above" =>
                   Len(sent) = 1 /\ sent[1].msg.kind = "gas_rose_above"
            /\ ev.prev_side = side => sent = <<>>

\* A sample equal to critical arrives after a sample below it: the upward
\* crossing is notified.
C1_Witness ==
    /\ ev.op = "gas_check"
    /\ ev.gas.gwei.k = "fin"
    /\ ev.prev_side = "below"
    /\ ~NumLess(ev.gas.gwei, ev.critical)
    /\ ~NumLess(ev.critical, ev.gas.gwei)
    /\ Len(sent) = 1
    /\ sent[1].msg.kind = "gas_rose_above"

\* C2: a pass of run_checks in which nothing went wrong but fetches (a check
\* raised only where its fetch had failed) has run price_check,
\* check_gigavault and gas_check by the time it ends.
C2_FetchFailureKeepsTheTick ==
    ( /\ pc \in {"sleep", "backoff"}
      /\ \A i \in 1..Len(tick_log) :
            tick_log[i].raised = "None" \/ tick_log[i].fetch_failed ) =>
        [i \in 1..Len(tick_log) |-> tick_log[i].op]
            = <<"price_check", "check_gigavault", "gas_check">>

\* C3: a poll of price_check alerts for BTC and for ETH whenever the sample
\* it fetched is strictly less than the signal's current threshold.
C3_BelowAlertsOnEveryPoll ==
    ev.op = "price_check" =>
        \A i \in 1..Len(ev.prices) :
            ( /\ ev.prices[i].symbol \in {BTC, ETH}
              /\ NumLess(ev.prices[i].price, thresholds[ev.prices[i].symbol]) ) =>
                \E j \in AlertsFor(ev.prices[i].symbol) :
                    sent[j].msg.price = ev.prices[i].price

\* BTC between the default threshold and one raised by /set, ETH below its
\* threshold: both alert.
C3_Witness ==
    /\ ev.op = "price_check"
    /\ BTC \in DOMAIN set_log
    /\ thresholds[BTC] = Fin(100000, 1)
    /\ \E i \in Sampled(BTC) : ev.prices[i].price = Fin(99500, 1)
    /\ \E i \in Sampled(ETH) : NumLess(ev.prices[i].price, thresholds[ETH])
    /\ AlertsFor(BTC) # {}
    /\ AlertsFor(ETH) # {}

\* C4: a poll of price_check alerts for AERO whenever the AERO sample it
\* fetched is strictly greater than the current AERO threshold.
C4_AeroAlertsOnEveryPoll ==
    ev.op = "price_check" =>
        \A i \in Sampled(AERO) :
            NumGreater(ev.prices[i].price, thresholds[AERO]) => AlertsFor(AERO) # {}

PastThreshold(symbol, price) ==
    IF symbol = AERO THEN NumGreater(price, thresholds[symbol])
    ELSE NumLess(price, thresholds[symbol])

\* C5: a poll of price_check sends at most one alert per signal and none for
\* a signal whose sample is not past its threshold (or that has no sample);
\* with samples BTC=94000, ETH=3500 and thresholds BTC 95000, ETH 3000 it
\* sends exactly one alert, for BTC.
C5_AtMostOneAlertPerSignal ==
    ev.op = "price_check" =>
        /\ \A s \in Symbols :
              /\ Cardinality(AlertsFor(s)) <= 1
              /\ (\A i \in Sampled(s) : ~PastThreshold(s, ev.prices[i].price)) =>
                     AlertsFor(s) = {}
        /\ \A j \in 1..Len(sent) : sent[j].msg.kind = "alert"
        /\ ( /\ ev.prices = << [symbol |-> BTC, price |-> Fin(94000, 1)],
                               [symbol |-> ETH, price |-> Fin(3500, 1)] >>
             /\ thresholds[BTC] = Fin(95000, 1)
             /\ thresholds[ETH] = Fin(3000, 1) ) =>
               Len(sent) = 1 /\ sent[1].msg.symbol = BTC

C5_Witness ==
    /\ ev.op = "price_check"
    /\ ev.prices = << [symbol |-> BTC, price |-> Fin(94000, 1)],
                      [symbol |-> ETH, price |-> Fin(3500, 1)] >>
    /\ thresholds[BTC] = Fin(95000, 1)
    /\ thresholds[ETH] = Fin(3000, 1)
    /\ Len(sent) = 1
    /\ sent[1].msg.symbol = BTC

\* The max_tvl values a check_gigavault was given, in the order of the list.
FetchedTvl ==
    LET gs == SelectSeq(ev.vaults.results, LAMBDA v : v.name = Gigavault)
    IN  [j \in 1..Len(gs) |-> IF gs[j].has_max_tvl THEN gs[j].max_tvl ELSE Fin(0, 1)]

StoredBefore(j) == IF j = 1 THEN ev.prev[Gigavault] ELSE FetchedTvl[j - 1]

Increases == {j \in 1..Len(FetchedTvl) : FetchedTvl[j].n > StoredBefore(j).n}

\* C6: check_gigavault notifies for a fetched max_tvl exactly when it is
\* strictly greater than the value stored before it, with the previous value,
\* the new one and their difference, and the value stored afterwards is the
\* last one fetched.
C6_VaultNotifiesIncreasesAndStores ==
    (ev.op = "check_gigavault" /\ ev.raised = "None") =>
        /\ Len(sent) = Cardinality(Increases)
        /\ \A j \in Increases :
              \E m \in 1..Len(sent) :
                  /\ sent[m].msg.kind = "vault_increased"
                  /\ sent[m].msg.prev = StoredBefore(j)
                  /\ sent[m].msg.max_tvl = FetchedTvl[j]
                  /\ sent[m].msg.free_space.n = FetchedTvl[j].n - StoredBefore(j).n
                  /\ sent[m].msg.free_space.d = 1
        /\ prev_max_tvl[Gigavault] =
               IF FetchedTvl = <<>> THEN ev.prev[Gigavault]
               ELSE FetchedTvl[Len(FetchedTvl)]

\* A lower value was stored by an earlier check; the next increase is
\* measured from it.
C6_Witness ==
    /\ ev.op = "check_gigavault"
    /\ ev.raised = "None"
    /\ ev.prev[Gigavault] = Fin(80000000, 1)
    /\ FetchedTvl = <<Fin(100000000, 1)>>
    /\ Len(sent) = 1
    /\ sent[1].msg.free_space = Fin(20000000, 1)
    /\ prev_max_tvl[Gigavault] = Fin(100000000, 1)

\* An entry of the list that names no endpoint: nothing but whitespace.
BlankEntry(entry) == \A j \in 1..Len(entry) : entry[j] \in Whitespace

\* An answer with status 200 whose result is the "0x..." text of a number.
ValidAnswer(resp) == resp = OkResp(resp.wei)

Succeeds(i) == ~BlankEntry(ev.urls[i]) /\ ValidAnswer(ev.resps[i])

FirstSuccess ==
    {k \in 1..Len(ev.urls) : Succeeds(k) /\ \A i \in 1..(k - 1) : ~Succeeds(i)}

\* The endpoints named by a list of entries, in order.
Endpoints(entries) ==
    LET named == SelectSeq(entries, LAMBDA e : ~BlankEntry(e))
    IN  [j \in 1..Len(named) |-> Strip(named[j])]

Reasons == Split(ev.out.gerr.text, " ; ")

\* C7: when the first endpoint of the list that answers validly is endpoint
\* k, get_eth_gas_gwei returns k's value (the hexadecimal wei over 1e9) and
\* no error, and has contacted the endpoints up to k, once each, in list
\* order, and none after k.
C7_FirstValidEndpointWins ==
    ev.op = "get_eth_gas_gwei" =>
        \A k \in FirstSuccess :
            /\ ev.out.gwei = Fin(ev.resps[k].wei, WeiPerGwei)
            /\ ev.out.gerr = NoneStr
            /\ ev.out.posts = Endpoints(SubSeq(ev.urls, 1, k))

\* The first two endpoints fail and the third answers 2 gwei.
C7_Witness ==
    /\ ev.op = "get_eth_gas_gwei"
    /\ FirstSuccess = {3}
    /\ ev.out.gwei = Fin(2000000000, WeiPerGwei)
    /\ Len(ev.out.posts) = 3

\* C8 as stated: when no entry of the list gives a value, the call returns
\* no value and an error made of one reason per entry of the list, in list
\* order, joined by " ; ".
C8_OneReasonPerEntry ==
    (ev.op = "get_eth_gas_gwei" /\ FirstSuccess = {}) =>
        /\ ev.out.gwei = NoneNum
        /\ ~ev.out.gerr.none
        /\ Len(Reasons) = Len(ev.urls)
        /\ \A i \in 1..Len(ev.urls) :
              /\ StartsWith(Reasons[i], Strip(ev.urls[i]))
              /\ Len(Reasons[i]) > Len(Strip(ev.urls[i]))

\* C8 amended: when no entry of the list gives a value, the call returns no
\* value and an error made of one reason per entry that names an endpoint
\* (an entry that is empty once stripped is passed over and gives none), in
\* list order, joined by " ; "; when no entry names an endpoint the error is
\* the text "No result from any RPC".
C8_OneReasonPerEndpoint ==
    (ev.op = "get_eth_gas_gwei" /\ FirstSuccess = {}) =>
        /\ ev.out.gwei = NoneNum
        /\ ~ev.out.gerr.none
        /\ IF Endpoints(ev.urls) = <<>>
           THEN ev.out.gerr.text = <<"No result from any RPC">>
           ELSE /\ Len(Reasons) = Len(Endpoints(ev.urls))
                /\ \A i \in 1..Len(Reasons) :
                      /\ StartsWith(Reasons[i], Endpoints(ev.urls)[i])
                      /\ Len(Reasons[i]) > Len(Endpoints(ev.urls)[i])

\* A list of three entries, one of them empty: both endpoints fail.
C8_Witness ==
    /\ ev.op = "get_eth_gas_gwei"
    /\ FirstSuccess = {}
    /\ Len(ev.urls) = 3
    /\ Len(Endpoints(ev.urls)) = 2
    /\ Len(Reasons) = 2

\* C9: the threshold of a signal equals the value of the last accepted /set
\* for it, in the process that accepted it and in every process started
\* afterwards.
C9_SetRoundTrip ==
    \A symbol \in DOMAIN set_log :
        /\ pc # "crashed"
        /\ thresholds[symbol] = ParseFloat(set_log[symbol])

\* C10: every threshold is a finite number that is positive or zero.
C10_ThresholdsFiniteNonNegative ==
    pc # "crashed" =>
        \A symbol \in DOMAIN thresholds :
            thresholds[symbol].k = "fin" /\ thresholds[symbol].n >= 0

\* A /set the handler rejects: the argument count is not two, the signal is
\* not one of the thresholds, or the value is not the text of a number.
RejectedSet(args, th) ==
    \/ Len(args) # 2
    \/ Upper(args[1]) \notin DOMAIN th
    \/ ParseFloat(Replace(args[2], ",", ".")).k = "ValueError"

\* C11: a rejected /set replies with one of the three plain-text messages
\* and leaves self.thresholds and config.env as they were.
C11_RejectedSetChangesNothing ==
    (ev.op = "cmd_set" /\ RejectedSet(ev.args, ev.old)) =>
        /\ ev.reply \in {"usage", "unknown_symbol", "bad_number"}
        /\ thresholds = ev.old
        /\ env_file = ev.old_file

\* /set BTC x is rejected after an earlier /set has written config.env.
C11_Witness ==
    /\ ev.op = "cmd_set"
    /\ ev.args = << BTC, <<"x">> >>
    /\ ev.reply = "bad_number"
    /\ set_log # EmptyEnviron
    /\ env_file.exists
    /\ env_file = ev.old_file
    /\ thresholds = ev.old

\* C12: a check that raises sends run_checks to its except branch; from
\* there the only step is one sleep of 60 seconds that ends at the start of
\* a new pass; and a new pass starts again and again, whatever the fetches,
\* the evaluations and the deliveries of the passes before it did.
C12_BackoffThenNewTick ==
    /\ [][ (tick_log' # <<>> /\ tick_log'[Len(tick_log')].raised # "None")
             => pc' = "backoff" ]_vars
    /\ [][ pc = "backoff" =>
             /\ pc' = "price_check"
             /\ ev' = [op |-> "backoff", seconds |-> 60] ]_vars
    /\ (pc # "price_check") ~> (pc = "price_check")
    /\ (pc = "price_check") ~> (pc # "price_check")

\* A pass that ran to its end was followed by one that raised; the backoff
\* is over and a new pass is about to start.
C12_Witness ==
    /\ pc = "price_check"
    /\ ev = [op |-> "backoff", seconds |-> 60]
    /\ gas_below_threshold # "None"

\* The steps that issue a request on the session.
SessionRequests ==
    {"price_check", "vault_fetched", "gas_check", "daily_prices", "daily_gas"}

\* C13: once the session is closed the scheduler is stopped and the task of
\* run_checks has ended, and no check or digest issues a request on the
\* closed session; main does not return without having closed the session
\* and handed the "stopped" notification to send_message.
C13_SessionClosedAfterSchedulerStopped ==
    /\ session = "closed" => (scheduler = "stopped" /\ pc = "cancelled")
    /\ ~(session = "closed" /\ ev.op \in SessionRequests)
    /\ main_pc \in {"app_stop", "exited"} => session = "closed"

\* The same, for the request alone: no pass of run_checks reaches a fetch
\* after the session was closed.
C13_NoRequestOnClosedSession ==
    ~(session = "closed" /\ ev.op \in SessionRequests)

\* The checks the current pass has finished, in the order they finished.
TickOps == [i \in 1..Len(tick_log) |-> tick_log[i].op]

TickOrder == <<"price_check", "check_gigavault", "gas_check">>

\* C14: the checks of a pass finish in the order price_check,
\* check_gigavault, gas_check; run_checks stands in a check only when the
\* checks before it have finished (a check_gigavault suspended in its
\* notification keeps gas_check from starting), and stands at price_check
\* only when the pass before, with its sleep, is over.
C14_FixedOrderNoOverlap ==
    /\ Len(TickOps) <= 3
    /\ TickOps = SubSeq(TickOrder, 1, Len(TickOps))
    /\ pc = "price_check" => TickOps = <<>>
    /\ pc = "check_gigavault" => TickOps = <<"price_check">>
    /\ pc = "gas_check" => TickOps = <<"price_check", "check_gigavault">>
    /\ pc = "sleep" => TickOps = TickOrder
    /\ fast_local # NoLocal => pc = "check_gigavault"

\* A digest ends while check_gigavault is suspended in its notification:
\* gas_check has not started.
C14_Witness ==
    /\ ev.op = "send_daily_prices"
    /\ fast_local.at = "vault_send"
    /\ pc = "check_gigavault"
    /\ TickOps = <<"price_check">>
    /\ gas_below_threshold # "None"

\* C15: a send_daily_prices that ends has handed exactly one message to
\* send_message, the digest, which reports a failed price fetch and a failed
\* gas fetch in place of the values; a digest that has started ends in no
\* other way (unless the process shuts down); and no step of a digest changes
\* the gas flag, the stored vault value or the thresholds, wherever
\* run_checks stands.
C15_DigestOncePerFiring ==
    /\ [](ev.op = "send_daily_prices" =>
            /\ Len(sent) = 1
            /\ sent[1].msg.kind = "digest"
            /\ sent[1].msg.prices_failed = (ev.prices = <<>>)
            /\ sent[1].msg.prices = ev.prices
            /\ sent[1].msg.gas_failed = (ev.gas.gwei.k = "None")
            /\ sent[1].msg.gas = ev.gas.gwei
            /\ sent[1].msg.gerr = ev.gas.gerr
            /\ ev.gas.gwei.k = "None" => ~ev.gas.gerr.none)
    /\ [][ (daily_pc # DailyIdle /\ daily_pc' = DailyIdle) =>
             \/ ev'.op = "send_daily_prices" /\ Len(sent') = 1
             \/ ev'.op \in {"shutdown", "exit"} ]_vars
    /\ [][ daily_pc' # daily_pc =>
             UNCHANGED << gas_below_threshold, prev_max_tvl, thresholds >> ]_vars

\* A digest fires and ends while run_checks is in its backoff sleep, both
\* of its fetches fail, and the gas flag set by an earlier pass is kept.
C15_Witness ==
    /\ ev.op = "send_daily_prices"
    /\ ev.fast = "backoff"
    /\ pc = "backoff"
    /\ session = "open"
    /\ Len(sent) = 1
    /\ sent[1].msg.prices_failed
    /\ sent[1].msg.gas_failed
    /\ gas_below_threshold = "False"

\* C16: while check_gigavault is suspended in its notification the value it
\* read is the stored one, and still is when it writes its update; the stored
\* vault value is written by the steps of check_gigavault only and the gas
\* flag by gas_check only, whatever the digest, /set and the shutdown do in
\* between.
C16_ReadValueStillStoredAtWrite ==
    /\ [](fast_local.at = "vault_send" =>
            fast_local.prev = prev_max_tvl[Gigavault])
    /\ [](ev.op = "vault_sent" => ev.read_prev = ev.stored_at_write)
    /\ [][ prev_max_tvl' # prev_max_tvl =>
             ev'.op \in {"vault_fetched", "vault_sent"} ]_vars
    /\ [][ gas_below_threshold' # gas_below_threshold => ev'.op = "gas_check" ]_vars

\* check_gigavault resumes from its notification right after a /set ran, a
\* digest being in the middle of its fetches, and writes the increase.
C16_Witness ==
    /\ ev.op = "vault_sent"
    /\ ev.after = "cmd_set"
    /\ daily_pc.at = "get_eth_gas_gwei"
    /\ ev.read_prev = Fin(90000000, 1)
    /\ ev.stored_at_write = Fin(90000000, 1)
    /\ ev.max_tvl = Fin(100000000, 1)

\* C17: after a gas_check that was given a sample the flag says whether the
\* sample is below critical, delivered or not the notification it sent; and
\* a notification that was not delivered is not sent again by a later
\* gas_check whose sample is on the same side.
C17_FlagFollowsSample ==
    (ev.op = "gas_check" /\ ev.gas.gwei.k # "None") =>
        /\ gas_below_threshold = PyBool(NumLess(ev.gas.gwei, ev.critical))
        /\ (ev.prev_undelivered /\ ev.prev_side = GasSide(ev.gas.gwei, ev.critical))
               => sent = <<>>

\* The notification of a downward crossing is not delivered: the flag is on
\* the new side all the same.
C17_Witness ==
    /\ ev.op = "gas_check"
    /\ ev.prev_flag = "False"
    /\ Len(sent) = 1
    /\ sent[1].msg.kind = "gas_dropped_below"
    /\ ~sent[1].delivered
    /\ gas_below_threshold = "True"

\* C18: a gas_check whose fetch failed on every endpoint sends nothing and
\* leaves the flag as it was; a price_check whose fetch failed sends no
\* alert; a check_gigavault whose fetch failed sends nothing and leaves the
\* stored max_tvl as it was.
C18_FailedFetchIsNoSample ==
    /\ (ev.op = "gas_check" /\ ev.gas.gwei.k = "None") =>
           (sent = <<>> /\ gas_below_threshold = ev.prev_flag)
    /\ (ev.op = "price_check" /\ ev.fetch.kind = "exception") => sent = <<>>
    /\ (ev.op = "check_gigavault" /\ ev.vaults.kind = "None") =>
           (sent = <<>> /\ prev_max_tvl = ev.prev)

\* Every endpoint fails on the first gas_check of the process: the flag
\* stays uninitialized and nothing is sent.
C18_Witness ==
    /\ ev.op = "gas_check"
    /\ ev.gas.gwei.k = "None"
    /\ ~ev.gas.gerr.none
    /\ ev.prev_flag = "None"
    /\ gas_below_threshold = "None"
    /\ sent = <<>>

\* The lines of a text, without their terminators.
TextLines(text) == Split(text, "\n")

\* C19: after a /set has called update_env_value(config.env, key, value),
\* whatever the file held before, one line of the file reads exactly
\* key=value, every line of another key stands where it stood and reads as
\* it read, and every other key reads back with the value it had.
C19_UpdateKeepsOtherLines ==
    (ev.op = "cmd_set" /\ ev.reply = "updated") =>
        LET key      == CriticalPriceKey(Upper(ev.args[1]))
            value    == Replace(ev.args[2], ",", ".")
            old      == IF ev.old_file.exists THEN TextLines(ev.old_file.text)
                        ELSE <<>>
            new      == TextLines(env_file.text)
            before   == DotenvValues(ev.old_file)
            after    == DotenvValues(env_file)
        IN  /\ \E i \in 1..Len(new) : new[i] = key \o <<"=">> \o value
            /\ \A i \in 1..Len(old) :
                  (old[i] # <<>> /\ ~StartsWith(Strip(old[i]), key \o <<"=">>)) =>
                      (i <= Len(new) /\ new[i] = old[i])
            /\ \A k \in DOMAIN before \ {key} :
                  k \in DOMAIN after /\ after[k] = before[k]

\* C20: for every signal a /set has assigned, self.thresholds holds the
\* number that the signal's <SIGNAL>_CRITICAL_PRICE entry of config.env
\* reads as.
C20_MemoryEqualsPersisted ==
    pc # "crashed" =>
        \A symbol \in DOMAIN set_log :
            LET key    == CriticalPriceKey(symbol)
                values == DotenvValues(env_file)
            IN  /\ key \in DOMAIN values
                /\ ParseFloat(values[key]) = thresholds[symbol]

=============================================================================
